---- MODULE Spec2Model ----
(***************************************************************************)
(* A model of the blogging backend: the token service and password hasher  *)
(* of auth.py, the user handlers of routers/users.py (registration, login, *)
(* identity resolution) and the post handlers of routers/posts.py, with    *)
(* the request schemas of schemas.py.                                      *)
(*                                                                         *)
(* Time is counted in ticks of 1/TicksPerSec seconds, so that the          *)
(* truncation of a token's expiry to whole seconds is visible.             *)
(***************************************************************************)
EXTENDS Integers, Sequences, FiniteSets, TLC

VARIABLES
    now,      \* the clock, in ticks
    issued,   \* token service: the issuances made so far, [tok, delta, at]
    vres,     \* token service: the last verification, [tok, at, result]
    users,    \* the users table, a sequence; a user's id is its index
    posts,    \* the posts table, a function from post id to row
    tokens,   \* the bearer tokens the clients hold
    resp,     \* the last response sent
    reg,      \* the registration requests in flight, per request slot
    raced     \* whether some registration committed after another one
              \* committed between its first lookup and its own insert

vars == <<now, issued, vres, users, posts, tokens, resp, reg, raced>>

(***************************************************************************)
(* Bounds of the model.                                                    *)
(***************************************************************************)
TicksPerSec == 2
ExtraTicks == 1
MaxDelta == 3
MaxIssued == 1
MaxUsers == 2
MaxPosts == 1
MaxTokens == 1
NumSlots == 2

(***************************************************************************)
(* Configuration (config.settings) and schema limits.                      *)
(***************************************************************************)
ACCESS_TOKEN_EXPIRE_MINUTES == 30
SECRET_KEY == "secret"
ALGORITHM == "HS256"
TITLE_MAX_LENGTH == 100
CONTENT_MAX_LENGTH == 100
TEXT_MIN_LENGTH == 1

DefaultDeltaTicks == ACCESS_TOKEN_EXPIRE_MINUTES * 60 * TicksPerSec
MaxNow == DefaultDeltaTicks + ExtraTicks

None == "None"

(***************************************************************************)
(* Strings are sequences of characters; str.lower() and SQL lower().       *)
(***************************************************************************)
LowerChar(c) ==
    CASE c = "A" -> "a"
      [] c = "B" -> "b"
      [] c = "X" -> "x"
      [] OTHER -> c

Lower(s) == [i \in DOMAIN s |-> LowerChar(s[i])]

(***************************************************************************)
(* str(user.id) and int(user_id).                                          *)
(***************************************************************************)
Str(i) ==
    CASE i = 1 -> "1"
      [] i = 2 -> "2"
      [] i = 3 -> "3"
      [] i = 42 -> "42"
      [] OTHER -> "?"

IsIntString(s) == s \in {"1", "2", "3", "42"}

Int_(s) ==
    CASE s = "1" -> 1
      [] s = "2" -> 2
      [] s = "3" -> 3
      [] s = "42" -> 42
      [] OTHER -> 0

(***************************************************************************)
(* Credential hasher: a salted digest that only the same plaintext         *)
(* reproduces.                                                             *)
(***************************************************************************)
Salts == {"salt1"}

hash_password(password, salt) ==
    [salt |-> salt, digest |-> <<salt, password>>]

verify_password(plain_password, hashed_password) ==
    hashed_password.digest = <<hashed_password.salt, plain_password>>

(***************************************************************************)
(* Token service.  A token is its three segments: the header's algorithm,  *)
(* the payload (a record of claims, readable by anyone) and the signature, *)
(* a MAC that equals Sign(key, alg, payload) only when made with that key  *)
(* over that header and payload.  segs is the number of segments of the    *)
(* token string.                                                           *)
(***************************************************************************)
Sign(key, alg, payload) == <<key, alg, payload>>

\* jwt.encode: a datetime claim is written as whole seconds since the epoch
jwt_encode(payload, key, alg) ==
    [segs |-> 3, alg |-> alg, payload |-> payload,
     sig |-> Sign(key, alg, payload)]

\* datetime -> NumericDate: the fraction of a second is dropped
NumericDate(ticks) == ticks \div TicksPerSec

\* timedelta truthiness: None and a zero duration are both falsy
Truthy(delta) == delta.given /\ delta.ticks # 0

ExpireTicks(delta, t) ==
    IF Truthy(delta) THEN t + delta.ticks ELSE t + DefaultDeltaTicks

create_access_token(data, expires_delta, t) ==
    LET expire == ExpireTicks(expires_delta, t)
        to_encode == [k \in DOMAIN data \cup {"exp"} |->
                         IF k = "exp" THEN NumericDate(expire) ELSE data[k]]
    IN  jwt_encode(to_encode, SECRET_KEY, ALGORITHM)

\* a token still accepted at the very instant of its expiry
ExpiredLate(payload, t) == payload.exp * TicksPerSec < t

\* PyJWT's expiry test: expired when exp <= now (now a float of seconds)
Expired(payload, t) == payload.exp * TicksPerSec <= t

\* jwt.decode(token, key, algorithms, options={"require": ...}): the name of
\* the InvalidTokenError raised, or "" when the payload is accepted
jwt_decode_error(token, key, algorithms, require, t) ==
    IF token.segs # 3 THEN "DecodeError"
    ELSE IF token.alg \notin algorithms THEN "InvalidAlgorithmError"
    ELSE IF token.sig # Sign(key, token.alg, token.payload)
         THEN "InvalidSignatureError"
    ELSE IF \E c \in require : c \notin DOMAIN token.payload
         THEN "MissingRequiredClaimError"
    ELSE IF Expired(token.payload, t) THEN "ExpiredSignatureError"
    ELSE ""

verify_access_token(token, t) ==
    IF jwt_decode_error(token, SECRET_KEY, {ALGORITHM}, {"exp", "sub"}, t) # ""
    THEN None
    ELSE token.payload.sub

(***************************************************************************)
(* The state after construction: an empty database, no token issued.      *)
(***************************************************************************)
Slots == 1..NumSlots

NoToken == [segs |-> 0, alg |-> "", payload |-> [exp |-> 0], sig |-> <<>>]

NoVerification == [done |-> FALSE, tok |-> NoToken, at |-> 0, result |-> None]

NoResp == [op |-> "", status |-> 0, detail |-> "", challenge |-> "",
           caller |-> 0, id |-> 0]

IdleSlot == [pc |-> "idle", username |-> <<>>, email |-> <<>>,
             password |-> "", base |-> 0]

Init ==
    /\ now = 0
    /\ issued = {}
    /\ vres = NoVerification
    /\ users = <<>>
    /\ posts = <<>>
    /\ tokens = {}
    /\ resp = NoResp
    /\ reg = [s \in Slots |-> IdleSlot]
    /\ raced = FALSE

(***************************************************************************)
(* The token service on its own: create_access_token is called with any    *)
(* claims and any expires_delta, the clock advances, and                   *)
(* verify_access_token is applied to issued tokens and to tokens an        *)
(* outsider can make from them without the secret.                        *)
(***************************************************************************)
NoData == [k \in {} |-> ""]

Datas == {[sub |-> "42"], [sub |-> "abc"], NoData}

Deltas == {[given |-> FALSE, ticks |-> 0]}
            \cup {[given |-> TRUE, ticks |-> d] : d \in (-1)..MaxDelta}

\* what a party without the secret can derive from a token it holds
Forgeries(tok) ==
    {[tok EXCEPT !.segs = 2],
     [tok EXCEPT !.alg = "none", !.sig = <<>>],
     [tok EXCEPT !.sig = Sign("attacker", tok.alg, tok.payload)],
     [tok EXCEPT !.payload = [@ EXCEPT !.exp = @ + DefaultDeltaTicks]],
     [tok EXCEPT !.payload = [sub |-> "1", exp |-> tok.payload.exp]],
     [tok EXCEPT !.payload = [exp |-> tok.payload.exp],
                 !.sig = Sign("attacker", tok.alg, [exp |-> tok.payload.exp])],
     [tok EXCEPT !.payload = [sub |-> "42"],
                 !.sig = Sign("attacker", tok.alg, [sub |-> "42"])]}

Presentable(held) == held \cup UNION {Forgeries(t) : t \in held}

IssueToken(data, expires_delta) ==
    /\ Cardinality(issued) < MaxIssued
    /\ issued' = issued \cup
          {[tok |-> create_access_token(data, expires_delta, now),
            delta |-> expires_delta, at |-> now]}
    /\ UNCHANGED <<now, vres, users, posts, tokens, resp, reg, raced>>

VerifyToken(token) ==
    /\ vres' = [done |-> TRUE, tok |-> token, at |-> now,
                result |-> verify_access_token(token, now)]
    /\ UNCHANGED <<now, issued, users, posts, tokens, resp, reg, raced>>

\* The clock advances by one tick within ExtraTicks of an instant the model
\* starts from, or jumps by the default token lifetime.
Tick(d) ==
    /\ now + d <= MaxNow
    /\ d = 1 => (now % DefaultDeltaTicks) < ExtraTicks
    /\ now' = now + d
    /\ UNCHANGED <<issued, vres, users, posts, tokens, resp, reg, raced>>

NextToken ==
    \/ \E data \in Datas, delta \in Deltas : IssueToken(data, delta)
    \/ \E token \in Presentable({i.tok : i \in issued}) : VerifyToken(token)
    \/ \E d \in {1, DefaultDeltaTicks} : Tick(d)

SpecToken == Init /\ [][NextToken]_vars

(***************************************************************************)
(* Responses.  caller is the id of the user the request was resolved to    *)
(* (0 when none was) and id the post id in the request's path (0 when the  *)
(* request has none).                                                      *)
(***************************************************************************)
Resp(op, status, detail, challenge, caller, id) ==
    [op |-> op, status |-> status, detail |-> detail,
     challenge |-> challenge, caller |-> caller, id |-> id]

(***************************************************************************)
(* Identity resolution.  A request carries an Authorization header or      *)
(* none: auth is [present, token].                                         *)
(***************************************************************************)
Unauthorized(detail) ==
    [ok |-> FALSE, status |-> 401, detail |-> detail,
     challenge |-> "Bearer", user_id |-> 0]

Authenticated(user_id) ==
    [ok |-> TRUE, status |-> 200, detail |-> "", challenge |-> "",
     user_id |-> user_id]

\* OAuth2PasswordBearer(tokenUrl=...) with auto_error: no bearer token in the
\* request is a 401 of the framework's own
oauth2_scheme(auth) ==
    IF auth.present THEN Authenticated(0) ELSE Unauthorized("Not authenticated")

get_current_user(token, us, t) ==
    LET user_id == verify_access_token(token, t)
    IN  IF user_id = None THEN Unauthorized("Invalid or expired token")
        ELSE IF ~IsIntString(user_id)
             THEN Unauthorized("Invalid or expired token")
        ELSE IF Int_(user_id) \notin DOMAIN us
             THEN Unauthorized("User not found")
        ELSE Authenticated(Int_(user_id))

\* The dependency in front of every handler that needs the caller:
\* get_current_user behind its own dependency on oauth2_scheme.  The post
\* handlers name it CurrentUser.
CurrentUser(auth, us, t) ==
    IF ~oauth2_scheme(auth).ok THEN oauth2_scheme(auth)
    ELSE get_current_user(auth.token, us, t)

NoAuth == [present |-> FALSE, token |-> NoToken]

\* a held token with its subject rewritten to another user's id and its
\* signature kept
Tampered(tok) ==
    [tok EXCEPT !.payload =
        [sub |-> IF tok.payload.sub = "1" THEN "2" ELSE "1",
         exp |-> tok.payload.exp]]

\* what a request may carry: nothing, a held token, or a token made from a
\* held one without the secret
Auths(held) ==
    {NoAuth} \cup {[present |-> TRUE, token |-> tok] :
                      tok \in held \cup {Tampered(h) : h \in held}}

(***************************************************************************)
(* Users: registration and login.                                          *)
(***************************************************************************)
RegBodies ==
    {[username |-> <<"a">>, email |-> <<"a", "@", "x">>, password |-> "password1"],
     [username |-> <<"A">>, email |-> <<"b", "@", "x">>, password |-> "password1"],
     [username |-> <<"b">>, email |-> <<"A", "@", "x">>, password |-> "password1"]}

LoginEmails ==
    {<<"a", "@", "x">>, <<"A", "@", "x">>, <<"b", "@", "x">>, <<"z", "@", "x">>}

Passwords == {"password1", "wrong"}

\* a lookup that compares the stored username as it is
UsersByUsernameExact(us, username) ==
    {i \in DOMAIN us : us[i].username = username}

\* select(User).where(func.lower(User.username) == username.lower())
UsersByUsername(us, username) ==
    {i \in DOMAIN us : Lower(us[i].username) = Lower(username)}

\* select(User).where(func.lower(User.email) == email.lower())
UsersByEmail(us, email) ==
    {i \in DOMAIN us : Lower(us[i].email) = Lower(email)}

\* result.scalars().first(): the row with the least id
First(S) == CHOOSE i \in S : \A j \in S : i <= j

\* the users table's unique columns: an insert that repeats a stored
\* username or email exactly fails at commit
DbUniqueViolation(us, body) ==
    \E i \in DOMAIN us :
        us[i].username = body.username \/ us[i].email = body.email

InsertUser(us, body, salt) ==
    Append(us, [id |-> Len(us) + 1, username |-> body.username,
                email |-> body.email,
                password_hash |-> hash_password(body.password, salt)])

\* create_user run without interruption
Register(body, salt) ==
    /\ IF UsersByUsername(users, body.username) # {}
       THEN /\ resp' = Resp("register", 400, "Username already exists", "", 0, 0)
            /\ users' = users
       ELSE IF UsersByEmail(users, body.email) # {}
       THEN /\ resp' = Resp("register", 400, "Email already exists", "", 0, 0)
            /\ users' = users
       ELSE /\ Len(users) < MaxUsers
            /\ users' = InsertUser(users, body, salt)
            /\ resp' = Resp("register", 201, "", "", 0, 0)
    /\ UNCHANGED <<now, issued, vres, posts, tokens, reg, raced>>

\* a login that tells an unknown email from a wrong password
LoginResultTelling(us, email, password, t) ==
    LET found == UsersByEmail(us, email)
    IN  IF found = {}
        THEN [status |-> 404, detail |-> "User not found",
              challenge |-> "", user_id |-> 0, token |-> NoToken]
        ELSE IF ~verify_password(password, us[First(found)].password_hash)
        THEN [status |-> 401, detail |-> "Incorrect email or password",
              challenge |-> "Bearer", user_id |-> 0, token |-> NoToken]
        ELSE [status |-> 200, detail |-> "", challenge |-> "",
              user_id |-> First(found),
              token |-> create_access_token(
                            [sub |-> Str(First(found))],
                            [given |-> TRUE, ticks |-> DefaultDeltaTicks], t)]

\* login_for_access_token: the response, and the token in it
LoginResult(us, email, password, t) ==
    LET found == UsersByEmail(us, email)
    IN  IF found = {}
           \/ ~verify_password(password, us[First(found)].password_hash)
        THEN [status |-> 401, detail |-> "Incorrect email or password",
              challenge |-> "Bearer", user_id |-> 0, token |-> NoToken]
        ELSE [status |-> 200, detail |-> "", challenge |-> "",
              user_id |-> First(found),
              token |-> create_access_token(
                            [sub |-> Str(First(found))],
                            [given |-> TRUE, ticks |-> DefaultDeltaTicks], t)]

\* the clients keep at most MaxTokens tokens, dropping one for a new one
Keep(held, tok) ==
    IF tok \in held \/ Cardinality(held) < MaxTokens
    THEN {held \cup {tok}}
    ELSE {(held \ {old}) \cup {tok} : old \in held}

Login(email, password) ==
    LET r == LoginResult(users, email, password, now)
    IN  /\ resp' = Resp("login", r.status, r.detail, r.challenge, r.user_id, 0)
        /\ IF r.status = 200
           THEN tokens' \in Keep(tokens, r.token)
           ELSE tokens' = tokens
        /\ UNCHANGED <<now, issued, vres, users, posts, reg, raced>>

\* GET /users/me
GetMe(auth) ==
    LET c == CurrentUser(auth, users, now)
    IN  /\ resp' = Resp("me", c.status, c.detail, c.challenge, c.user_id, 0)
        /\ UNCHANGED <<now, issued, vres, users, posts, tokens, reg, raced>>

(***************************************************************************)
(* Request bodies are JSON objects: functions from field names to JSON     *)
(* values, a value being a string, null or an integer.                     *)
(***************************************************************************)
\* a text of a post: the character ch repeated len times
Chars(ch, len) == [ch |-> ch, len |-> len]

StrLen(s) == s.len

JStr(s) == [t |-> "str", s |-> s, n |-> 0]
JNull == [t |-> "null", s |-> Chars("", 0), n |-> 0]
JInt(n) == [t |-> "int", s |-> Chars("", 0), n |-> n]

Object(fields) ==
    [k \in {f[1] : f \in fields} |-> (CHOOSE f \in fields : f[1] = k)[2]]

TitleA == JStr(Chars("a", 1))
TitleLongest == JStr(Chars("x", TITLE_MAX_LENGTH))
TitleTooLong == JStr(Chars("x", TITLE_MAX_LENGTH + 1))
Empty == JStr(Chars("", 0))
ContentC == JStr(Chars("c", 1))

\* bodies of POST /posts and PUT /posts/{id}
PostBodies ==
    {Object({<<"title", TitleA>>, <<"content", ContentC>>}),
     Object({<<"title", TitleLongest>>, <<"content", ContentC>>}),
     Object({<<"title", TitleTooLong>>, <<"content", ContentC>>}),
     Object({<<"title", TitleA>>, <<"content", Empty>>}),
     Object({<<"title", TitleA>>, <<"content", ContentC>>,
             <<"user_id", JInt(2)>>})}

\* bodies of PATCH /posts/{id}
PatchBodies ==
    {Object({<<"title", TitleLongest>>}),
     Object({<<"title", TitleTooLong>>}),
     Object({<<"title", JNull>>}),
     Object({<<"title", TitleA>>, <<"content", ContentC>>}),
     Object({<<"title", TitleLongest>>, <<"user_id", JInt(2)>>})}

\* Field(min_length=..., max_length=...) on a str
StrField(v, lo, hi) ==
    v.t = "str" /\ StrLen(v.s) >= lo /\ StrLen(v.s) <= hi

\* PostBase, PostCreate, PostUpdate: both fields required
ValidPostBase(body) ==
    /\ "title" \in DOMAIN body
    /\ StrField(body.title, TEXT_MIN_LENGTH, TITLE_MAX_LENGTH)
    /\ "content" \in DOMAIN body
    /\ StrField(body.content, TEXT_MIN_LENGTH, CONTENT_MAX_LENGTH)

\* PostUpdatePartial: str | None, default None
ValidPostUpdatePartial(body) ==
    /\ "title" \in DOMAIN body =>
          \/ body.title.t = "null"
          \/ StrField(body.title, TEXT_MIN_LENGTH, TITLE_MAX_LENGTH)
    /\ "content" \in DOMAIN body =>
          \/ body.content.t = "null"
          \/ StrField(body.content, TEXT_MIN_LENGTH, CONTENT_MAX_LENGTH)

\* a partial-update schema that lets every field of the body through
model_dump_all(body) == body

\* PostUpdatePartial(...).model_dump(exclude_unset=True): the fields of the
\* schema that the body carries; other fields of the body are dropped
model_dump(body) ==
    [k \in DOMAIN body \cap {"title", "content"} |-> body[k]]

\* for key, value in update_data.items(): setattr(post, key, value)
SetAttrs(post, update_data) ==
    [k \in DOMAIN post |->
        IF k \in DOMAIN update_data
        THEN (IF k = "user_id" THEN update_data[k].n ELSE update_data[k])
        ELSE post[k]]

(***************************************************************************)
(* Posts.  A row is [id, title, content, user_id]; creator records the     *)
(* caller whose request created the row.                                   *)
(***************************************************************************)
PostIds == 1..(MaxPosts + 1)

\* the id the database gives a new row
NewPostId(ps) ==
    IF DOMAIN ps = {} THEN 1
    ELSE (CHOOSE i \in DOMAIN ps : \A j \in DOMAIN ps : j <= i) + 1

Remove(ps, id) == [i \in DOMAIN ps \ {id} |-> ps[i]]

Fail(op, c, id) == Resp(op, c.status, c.detail, c.challenge, c.user_id, id)

\* The caller is resolved first; a request whose caller cannot be resolved is
\* answered before its body is looked at.
CreatePost(auth) ==
    LET c == CurrentUser(auth, users, now)
        id == NewPostId(posts)
    IN  /\ IF ~c.ok
           THEN resp' = Fail("POST", c, 0) /\ posts' = posts
           ELSE \E body \in PostBodies :
           IF ~ValidPostBase(body)
           THEN /\ resp' = Resp("POST", 422, "validation", "", c.user_id, 0)
                /\ posts' = posts
           ELSE /\ id <= MaxPosts
                /\ posts' = [i \in DOMAIN posts \cup {id} |->
                               IF i = id
                               THEN [id |-> id, title |-> body.title,
                                     content |-> body.content,
                                     user_id |-> c.user_id,
                                     creator |-> c.user_id]
                               ELSE posts[i]]
                /\ resp' = Resp("POST", 201, "", "", c.user_id, id)
        /\ UNCHANGED <<now, issued, vres, users, tokens, reg, raced>>

\* an ownership check that lets every caller through
NotOwnerNever(caller_id, post) == FALSE

\* current_user.id != post.user_id
NotOwner(caller_id, post) == caller_id # post.user_id

UpdatePost(auth, id) ==
    LET c == CurrentUser(auth, users, now)
    IN  /\ IF ~c.ok
           THEN resp' = Fail("PUT", c, id) /\ posts' = posts
           ELSE \E body \in PostBodies :
           IF ~ValidPostBase(body)
           THEN /\ resp' = Resp("PUT", 422, "validation", "", c.user_id, id)
                /\ posts' = posts
           ELSE IF id \notin DOMAIN posts
           THEN /\ resp' = Resp("PUT", 404, "Post not found", "", c.user_id, id)
                /\ posts' = posts
           ELSE IF NotOwner(c.user_id, posts[id])
           THEN /\ resp' = Resp("PUT", 403,
                                "You are not authorized to update this post",
                                "", c.user_id, id)
                /\ posts' = posts
           ELSE /\ posts' = [posts EXCEPT ![id].title = body.title,
                                          ![id].content = body.content]
                /\ resp' = Resp("PUT", 200, "", "", c.user_id, id)
        /\ UNCHANGED <<now, issued, vres, users, tokens, reg, raced>>

PatchPost(auth, id) ==
    LET c == CurrentUser(auth, users, now)
    IN  /\ IF ~c.ok
           THEN resp' = Fail("PATCH", c, id) /\ posts' = posts
           ELSE \E body \in PatchBodies :
           IF ~ValidPostUpdatePartial(body)
           THEN /\ resp' = Resp("PATCH", 422, "validation", "", c.user_id, id)
                /\ posts' = posts
           ELSE IF id \notin DOMAIN posts
           THEN /\ resp' = Resp("PATCH", 404, "Post not found", "", c.user_id, id)
                /\ posts' = posts
           ELSE IF NotOwner(c.user_id, posts[id])
           THEN /\ resp' = Resp("PATCH", 403,
                                "You are not authorized to update this post",
                                "", c.user_id, id)
                /\ posts' = posts
           ELSE /\ posts' = [posts EXCEPT
                               ![id] = SetAttrs(@, model_dump(body))]
                /\ resp' = Resp("PATCH", 200, "", "", c.user_id, id)
        /\ UNCHANGED <<now, issued, vres, users, tokens, reg, raced>>

\* a delete that removes the row before it checks the owner
DeletePostEager(auth, id) ==
    LET c == CurrentUser(auth, users, now)
    IN  /\ IF ~c.ok
           THEN resp' = Fail("DELETE", c, id) /\ posts' = posts
           ELSE IF id \notin DOMAIN posts
           THEN /\ resp' = Resp("DELETE", 404, "Post not found", "", c.user_id, id)
                /\ posts' = posts
           ELSE /\ posts' = Remove(posts, id)
                /\ resp' = IF NotOwner(c.user_id, posts[id])
                           THEN Resp("DELETE", 403,
                                     "You are not authorized to delete this post",
                                     "", c.user_id, id)
                           ELSE Resp("DELETE", 204, "", "", c.user_id, id)
        /\ UNCHANGED <<now, issued, vres, users, tokens, reg, raced>>

\* a delete that answers 204 whether or not the row exists
DeletePostIdempotent(auth, id) ==
    LET c == CurrentUser(auth, users, now)
    IN  /\ IF ~c.ok
           THEN resp' = Fail("DELETE", c, id) /\ posts' = posts
           ELSE IF id \notin DOMAIN posts
           THEN /\ resp' = Resp("DELETE", 204, "", "", c.user_id, id)
                /\ posts' = posts
           ELSE IF NotOwner(c.user_id, posts[id])
           THEN /\ resp' = Resp("DELETE", 403,
                                "You are not authorized to delete this post",
                                "", c.user_id, id)
                /\ posts' = posts
           ELSE /\ posts' = Remove(posts, id)
                /\ resp' = Resp("DELETE", 204, "", "", c.user_id, id)
        /\ UNCHANGED <<now, issued, vres, users, tokens, reg, raced>>

DeletePost(auth, id) ==
    LET c == CurrentUser(auth, users, now)
    IN  /\ IF ~c.ok
           THEN resp' = Fail("DELETE", c, id) /\ posts' = posts
           ELSE IF id \notin DOMAIN posts
           THEN /\ resp' = Resp("DELETE", 404, "Post not found", "", c.user_id, id)
                /\ posts' = posts
           ELSE IF NotOwner(c.user_id, posts[id])
           THEN /\ resp' = Resp("DELETE", 403,
                                "You are not authorized to delete this post",
                                "", c.user_id, id)
                /\ posts' = posts
           ELSE /\ posts' = Remove(posts, id)
                /\ resp' = Resp("DELETE", 204, "", "", c.user_id, id)
        /\ UNCHANGED <<now, issued, vres, users, tokens, reg, raced>>

(***************************************************************************)
(* The service: requests are handled one after another.                   *)
(***************************************************************************)
Next ==
    \/ \E body \in RegBodies, salt \in Salts : Register(body, salt)
    \/ \E email \in LoginEmails, password \in Passwords : Login(email, password)
    \/ \E auth \in Auths(tokens) : GetMe(auth)
    \/ \E auth \in Auths(tokens) : CreatePost(auth)
    \/ \E auth \in Auths(tokens), id \in PostIds : UpdatePost(auth, id)
    \/ \E auth \in Auths(tokens), id \in PostIds : PatchPost(auth, id)
    \/ \E auth \in Auths(tokens), id \in PostIds : DeletePost(auth, id)
    \/ Tick(DefaultDeltaTicks)

Spec == Init /\ [][Next]_vars

(***************************************************************************)
(* Concurrent registrations.  create_user awaits the database three times: *)
(* the username lookup, the email lookup and the commit of the insert.     *)
(* Each request slot runs one create_user at a time, and the steps of      *)
(* different slots interleave.  base is the number of users stored when    *)
(* the request made its first lookup.                                      *)
(***************************************************************************)
Busy == {s \in Slots : reg[s].pc # "idle"}

RegStart(s, body) ==
    /\ reg[s].pc = "idle"
    /\ IF UsersByUsername(users, body.username) # {}
       THEN /\ resp' = Resp("register", 400, "Username already exists", "", 0, 0)
            /\ reg' = reg
       ELSE /\ Len(users) + Cardinality(Busy) < MaxUsers
            /\ reg' = [reg EXCEPT ![s] =
                          [pc |-> "email", username |-> body.username,
                           email |-> body.email, password |-> body.password,
                           base |-> Len(users)]]
            /\ resp' = resp
    /\ UNCHANGED <<now, issued, vres, users, posts, tokens, raced>>

RegCheckEmail(s) ==
    /\ reg[s].pc = "email"
    /\ IF UsersByEmail(users, reg[s].email) # {}
       THEN /\ resp' = Resp("register", 400, "Email already exists", "", 0, 0)
            /\ reg' = [reg EXCEPT ![s] = IdleSlot]
       ELSE /\ reg' = [reg EXCEPT ![s].pc = "insert"]
            /\ resp' = resp
    /\ UNCHANGED <<now, issued, vres, users, posts, tokens, raced>>

RegInsert(s, salt) ==
    /\ reg[s].pc = "insert"
    /\ IF DbUniqueViolation(users, reg[s])
       THEN /\ resp' = Resp("register", 500, "IntegrityError", "", 0, 0)
            /\ users' = users
            /\ raced' = raced
       ELSE /\ users' = InsertUser(users, reg[s], salt)
            /\ resp' = Resp("register", 201, "", "", 0, 0)
            /\ raced' = (raced \/ reg[s].base # Len(users))
    /\ reg' = [reg EXCEPT ![s] = IdleSlot]
    /\ UNCHANGED <<now, issued, vres, posts, tokens>>

NextReg ==
    \/ \E s \in Slots, body \in RegBodies : RegStart(s, body)
    \/ \E s \in Slots : RegCheckEmail(s)
    \/ \E s \in Slots, salt \in Salts : RegInsert(s, salt)

SpecReg == Init /\ [][NextReg]_vars

(***************************************************************************)
(* Claims about the token service.                                         *)
(***************************************************************************)
SignatureOk(token) ==
    /\ token.segs = 3
    /\ token.alg = ALGORITHM
    /\ token.sig = Sign(SECRET_KEY, token.alg, token.payload)

BeforeExpiry(token, t) ==
    /\ "exp" \in DOMAIN token.payload
    /\ t < token.payload.exp * TicksPerSec

PositiveTtl(i) == i.delta.given /\ i.delta.ticks > 0

\* C2: verify_access_token returns the token's subject exactly when the
\* signature checks out under the configured secret and algorithm, the time
\* of the verification is before the token's expiry and a subject is
\* present, and None otherwise; and a token issued with subject "42" and a
\* positive ttl verifies to "42" at every instant before its expiry.
C2_VerifyIffValid ==
    /\ vres.done =>
          IF /\ SignatureOk(vres.tok)
             /\ BeforeExpiry(vres.tok, vres.at)
             /\ "sub" \in DOMAIN vres.tok.payload
          THEN vres.result = vres.tok.payload.sub
          ELSE vres.result = None
    /\ \A i \in issued :
          ( /\ "sub" \in DOMAIN i.tok.payload
            /\ i.tok.payload.sub = "42"
            /\ PositiveTtl(i)
            /\ BeforeExpiry(i.tok, now) )
          => verify_access_token(i.tok, now) = "42"

\* a token issued with a positive ttl was verified to "42" some time after
\* its issuance
C2_Witness ==
    /\ vres.done
    /\ vres.result = "42"
    /\ \E i \in issued :
          i.tok = vres.tok /\ PositiveTtl(i) /\ vres.at > i.at

\* C3: a token issued with an expires_delta of zero, or with an expiry in the
\* past, fails verification at every instant from its issuance on.
C3_ZeroTtlFails ==
    \A i \in issued :
        (i.delta.given /\ i.delta.ticks <= 0)
        => verify_access_token(i.tok, now) = None

(***************************************************************************)
(* Claims about registration.                                              *)
(***************************************************************************)
CaseInsensitiveUnique(us) ==
    \A i, j \in DOMAIN us :
        i # j => /\ Lower(us[i].username) # Lower(us[j].username)
                 /\ Lower(us[i].email) # Lower(us[j].email)

\* C5, as claimed: in every reachable state, interleaved registrations
\* included, no two stored users have usernames or emails that are equal
\* when compared case-insensitively.
C5_AlwaysUnique == CaseInsensitiveUnique(users)

\* C5, amended: usernames and emails stay unique, compared
\* case-insensitively, as long as no registration commits after another one
\* committed between its first lookup and its own insert; and a registration
\* whose lookup finds a stored username or email equal to its own in any
\* casing is rejected with 400 and stores nothing.
C5_UniqueUnlessRaced ==
    /\ [](~raced => CaseInsensitiveUnique(users))
    /\ [][\A s \in Slots :
            /\ \A body \in RegBodies :
                  ( /\ RegStart(s, body)
                    /\ \E i \in DOMAIN users :
                          Lower(users[i].username) = Lower(body.username) )
                  => (resp'.status = 400 /\ users' = users /\ reg' = reg)
            /\ ( /\ RegCheckEmail(s)
                 /\ \E i \in DOMAIN users :
                       Lower(users[i].email) = Lower(reg[s].email) )
               => (resp'.status = 400 /\ users' = users
                   /\ reg'[s].pc = "idle")]_vars

\* two users are stored without any race, and a registration that matches
\* one of them has just been rejected
C5_Witness ==
    /\ ~raced
    /\ Len(users) = 2
    /\ resp.op = "register" /\ resp.status = 400

(***************************************************************************)
(* Claims about the service.                                               *)
(***************************************************************************)
\* every step but a tick of the clock is the handling of a request
RequestStep == now' = now

Mutating == {"PUT", "PATCH", "DELETE"}

\* C1: a post's title and content change, and a post is removed, only in a
\* request whose authenticated caller is the post's owner; a PUT, PATCH or
\* DELETE with a well-formed body on an existing post by an authenticated
\* caller who is not its owner ends in 403 and leaves the posts as they were.
C1_OnlyOwnerMutates ==
    [][RequestStep =>
        /\ \A id \in DOMAIN posts :
              ( \/ id \notin DOMAIN posts'
                \/ posts'[id].title # posts[id].title
                \/ posts'[id].content # posts[id].content )
              => /\ resp'.op \in Mutating
                 /\ resp'.id = id
                 /\ resp'.caller = posts[id].user_id
                 /\ resp'.status \in {200, 204}
        /\ ( /\ resp'.op \in Mutating
             /\ resp'.caller # 0
             /\ resp'.status # 422
             /\ resp'.id \in DOMAIN posts
             /\ posts[resp'.id].user_id # resp'.caller )
           => (resp'.status = 403 /\ posts' = posts)]_vars

\* a PATCH of an existing post by an authenticated caller who is not its
\* owner has ended in 403
C1_Witness ==
    /\ resp.op = "PATCH"
    /\ resp.status = 403
    /\ resp.id \in DOMAIN posts
    /\ resp.caller # 0
    /\ posts[resp.id].user_id # resp.caller

\* C4: every failure of identity resolution yields the same 401 response,
\* message and challenge header included, whatever the reason.
C4_UniformUnauthorized ==
    \A a1, a2 \in Auths(tokens) :
        LET c1 == CurrentUser(a1, users, now)
            c2 == CurrentUser(a2, users, now)
        IN  (~c1.ok /\ ~c2.ok) => c1 = c2

\* C6: a login with the email of an existing user and a wrong password gets
\* the same response as a login with an email of no user: 401, the same
\* message, a challenge header, and no token.
C6_LoginFailuresAlike ==
    /\ \A e1, e2 \in LoginEmails : \A p1, p2 \in Passwords :
          LET r1 == LoginResult(users, e1, p1, now)
              r2 == LoginResult(users, e2, p2, now)
          IN  ( /\ \E i \in DOMAIN users :
                      /\ Lower(users[i].email) = Lower(e1)
                      /\ ~verify_password(p1, users[i].password_hash)
                /\ \A i \in DOMAIN users : Lower(users[i].email) # Lower(e2) )
              => /\ r1 = r2
                 /\ r1.status = 401
                 /\ r1.challenge = "Bearer"
                 /\ r1.token = NoToken
    /\ (resp.op = "login" /\ resp.status # 200)
       => resp = Resp("login", 401, "Incorrect email or password",
                      "Bearer", 0, 0)

\* a login has failed while a user is stored and no token has been issued
C6_Witness ==
    /\ resp.op = "login"
    /\ resp.status = 401
    /\ Len(users) = 2
    /\ tokens = {}

\* C7, as claimed: a DELETE of a post id that is not in the store ends in
\* 404 whatever the request's authorization.
C7_Delete404Always ==
    [][(RequestStep /\ resp'.op = "DELETE" /\ resp'.id \notin DOMAIN posts)
       => resp'.status = 404]_vars

\* C7, amended: a DELETE of a post id that is not in the store ends in 404
\* for every authenticated caller, and in 401 when the request carries no
\* token or one that does not resolve to a user.
C7_Delete404WhenAuthenticated ==
    [][(RequestStep /\ resp'.op = "DELETE" /\ resp'.id \notin DOMAIN posts)
       => IF resp'.caller # 0 THEN resp'.status = 404
          ELSE resp'.status = 401]_vars

\* an authenticated caller's DELETE of an absent post has ended in 404
\* while another post is stored
C7_Witness ==
    /\ resp.op = "DELETE"
    /\ resp.status = 404
    /\ resp.caller # 0
    /\ resp.id \notin DOMAIN posts
    /\ DOMAIN posts # {}

\* C8: every stored post's owning user id is the id of the authenticated
\* caller whose POST created it; no later request changes it.
C8_OwnerIsCreator ==
    /\ \A id \in DOMAIN posts : posts[id].user_id = posts[id].creator
    /\ (resp.op = "POST" /\ resp.status = 201 /\ resp.id \in DOMAIN posts)
       => posts[resp.id].user_id = resp.caller

\* a PATCH by the owner, user 1, has been applied while user 2 exists
C8_Witness ==
    /\ resp.op = "PATCH"
    /\ resp.status = 200
    /\ resp.caller = 1
    /\ Len(users) = 2
    /\ resp.id \in DOMAIN posts
    /\ posts[resp.id].user_id = 1

ErrorStatus == {400, 401, 403, 404, 422}

\* C9: a request that ends in an error response leaves the stored users and
\* posts as they were.
C9_ErrorsChangeNothing ==
    [][(RequestStep /\ resp'.status \in ErrorStatus)
       => (users' = users /\ posts' = posts)]_vars

\* a PUT of an absent post has ended in 404 while another post is stored
C9_Witness ==
    /\ resp.op = "PUT"
    /\ resp.status = 404
    /\ DOMAIN posts # {}

\* C10: every stored post has a title of 1 to 100 characters and a content
\* of 1 to 100 characters.
C10_TextLengths ==
    \A id \in DOMAIN posts :
        /\ StrField(posts[id].title, TEXT_MIN_LENGTH, TITLE_MAX_LENGTH)
        /\ StrField(posts[id].content, TEXT_MIN_LENGTH, CONTENT_MAX_LENGTH)

====
